---- MODULE Spec2Model ----
(***************************************************************************)
(* Model of report.py, the AI maintainability analyzer: main walks a       *)
(* directory, analyze_file classifies every python or config file, and     *)
(* generate_report renders the table.                                      *)
(*                                                                         *)
(* Numbers with a fixed number of decimals are kept as scaled integers:    *)
(*   size.kb, config metrics and thresholds compared to them : tenths      *)
(*   size.mb                                                : thousandths *)
(*   comment_density                                        : tenths      *)
(* so that round(x, 1) and round(x, 3) are computed, not assumed.          *)
(***************************************************************************)
EXTENDS Integers, Sequences, FiniteSets

VARIABLES listing, pos, pc, files, calls, report

vars == <<listing, pos, pc, files, calls, report>>

(***************************************************************************)
(* Bounds of the model                                                     *)
(***************************************************************************)
MaxComplexity == 57
MaxLines == 5
MaxTokens == 3
MaxFiles == 2

(***************************************************************************)
(* Configuration constants                                                 *)
(***************************************************************************)
\* CLAUDE_TOLERANCES['python']['complexity_tiers'], in insertion order
complexity_tiers ==
    << [rating |-> "simple", threshold |-> 15],
       [rating |-> "safe", threshold |-> 35],
       [rating |-> "complex", threshold |-> 55],
       [rating |-> "danger", threshold |-> 56] >>

\* CLAUDE_TOLERANCES['python']['comment_tiers'], in insertion order
comment_tiers ==
    << [rating |-> "excellent", threshold |-> 25],
       [rating |-> "good", threshold |-> 15],
       [rating |-> "fair", threshold |-> 5],
       [rating |-> "poor", threshold |-> 0] >>

\* CLAUDE_TOLERANCES['config']['size_tiers'], in insertion order (KB)
size_tiers ==
    << [rating |-> "simple", threshold |-> 1000],
       [rating |-> "safe", threshold |-> 2500],
       [rating |-> "complex", threshold |-> 4000],
       [rating |-> "danger", threshold |-> 4001] >>

\* AI_THRESHOLDS, in insertion order
AI_THRESHOLDS ==
    << [model |-> "claude-3.5-sonnet", python_complexity |-> 55, config_size_kb |-> 4000],
       [model |-> "claude-3.5-haiku", python_complexity |-> 35, config_size_kb |-> 2500],
       [model |-> "gpt-4-turbo", python_complexity |-> 45, config_size_kb |-> 3500] >>

PYTHON_EXTS == {".py"}
CONFIG_EXTS == {".ini", ".cfg", ".conf", ".toml", ".yml", ".yaml", ".json"}

(***************************************************************************)
(* Library functions the program calls                                     *)
(***************************************************************************)
\* round(num / den, k) for the scaled quotient: Python rounds the exact value
\* of the float, ties to even.
RoundHalfEven(num, den) ==
    LET q == num \div den
        r == num % den
    IN  IF 2 * r > den THEN q + 1
        ELSE IF 2 * r < den THEN q
        ELSE IF q % 2 = 0 THEN q ELSE q + 1

\* os.path.splitext(name)[1] on the file names of the model
splitext(name) ==
    CASE name = "report.py" -> ".py"
      [] name = "app.py" -> ".py"
      [] name = "settings.JSON" -> ".JSON"
      [] name = "notes.txt" -> ".txt"

\* str.lower on the extensions of the model
lower(ext) ==
    CASE ext = ".JSON" -> ".json"
      [] OTHER -> ext

upper_unchanged(s) == s

\* str.upper on the tier names
upper(s) ==
    CASE s = "simple" -> "SIMPLE"
      [] s = "safe" -> "SAFE"
      [] s = "complex" -> "COMPLEX"
      [] s = "danger" -> "DANGER"
      [] s = "excellent" -> "EXCELLENT"
      [] s = "good" -> "GOOD"
      [] s = "fair" -> "FAIR"
      [] s = "poor" -> "POOR"

\* `x in seq`
Contains(seq, x) == \E i \in DOMAIN seq : seq[i] = x

\* the value None
None == [isNone |-> TRUE]

(***************************************************************************)
(* get_file_size                                                           *)
(***************************************************************************)
\* f.statFails: os.path.getsize raises OSError
get_file_size(f) ==
    IF f.statFails
    THEN [bytes |-> 0, kb |-> 0, mb |-> 0]
    ELSE [bytes |-> f.bytes,
          kb |-> RoundHalfEven(f.bytes * 5, 512),
          mb |-> RoundHalfEven(f.bytes * 125, 131072)]

(***************************************************************************)
(* analyze_comments                                                        *)
(***************************************************************************)
\* f.comments: COMMENT tokens of the file; f.lines: len(readlines());
\* f.docfirst: the first line, stripped, starts with a triple quote;
\* f.commentFails: an exception inside the try block.
analyze_comments(f) ==
    IF f.commentFails
    THEN [comment_density |-> 0, comment_quality |-> "ERROR"]
    ELSE
    LET comment_lines == f.comments
        total_lines == f.lines
        has_module_doc == IF total_lines > 0 THEN f.docfirst ELSE FALSE
        density == IF total_lines > 0
                   THEN RoundHalfEven(comment_lines * 1000, total_lines)
                   ELSE 0
        hit(i) == density >= 10 * comment_tiers[i].threshold
        quality == IF \E i \in DOMAIN comment_tiers : hit(i)
                   THEN upper(comment_tiers[
                            CHOOSE i \in DOMAIN comment_tiers :
                                hit(i) /\ \A j \in 1..(i - 1) : ~hit(j)].rating)
                   ELSE "POOR"
    IN  [comment_density |-> density,
         comment_quality |-> IF total_lines = 0 /\ has_module_doc
                             THEN "EXCELLENT"
                             ELSE quality]

(***************************************************************************)
(* adjust_safety, get_safety_rating                                        *)
(***************************************************************************)
safety_order == <<"SIMPLE", "SAFE", "COMPLEX", "DANGER">>

\* safety_order.index(s), 1-based; 0 when index() raises ValueError
IndexOf(s) ==
    IF Contains(safety_order, s)
    THEN CHOOSE i \in DOMAIN safety_order : safety_order[i] = s
    ELSE 0

\* the bug of dropping max(0, ...): index -1 is the last element in Python
adjust_safety_unclamped(base_safety, comment_density) ==
    LET idx == IndexOf(base_safety)
    IN  IF idx = 0 THEN base_safety
        ELSE IF comment_density >= 250
             THEN safety_order[IF idx - 1 < 1 THEN Len(safety_order) ELSE idx - 1]
        ELSE IF comment_density < 100
             THEN safety_order[IF idx + 1 > Len(safety_order)
                               THEN Len(safety_order) ELSE idx + 1]
        ELSE base_safety

\* the bug of comparing with > where the code has >=
adjust_safety_strict(base_safety, comment_density) ==
    LET idx == IndexOf(base_safety)
    IN  IF idx = 0 THEN base_safety
        ELSE IF comment_density > 250
             THEN safety_order[IF idx - 1 < 1 THEN 1 ELSE idx - 1]
        ELSE IF comment_density < 100
             THEN safety_order[IF idx + 1 > Len(safety_order)
                               THEN Len(safety_order) ELSE idx + 1]
        ELSE base_safety

adjust_safety(base_safety, comment_density) ==
    LET idx == IndexOf(base_safety)
    IN  IF idx = 0 THEN base_safety
        ELSE IF comment_density >= 250
             THEN safety_order[IF idx - 1 < 1 THEN 1 ELSE idx - 1]
        ELSE IF comment_density < 100
             THEN safety_order[IF idx + 1 > Len(safety_order)
                               THEN Len(safety_order) ELSE idx + 1]
        ELSE base_safety

\* the primary metric in tenths: complexity for python, size.kb for config
Metric(file_data) ==
    IF file_data.type = "python"
    THEN 10 * file_data.complexity
    ELSE file_data.size.kb

Tiers(file_type) ==
    IF file_type = "python" THEN complexity_tiers ELSE size_tiers

base_safety_strict(file_data) ==
    LET tiers == Tiers(file_data.type)
        hit(i) == Metric(file_data) < 10 * tiers[i].threshold
    IN  IF \E i \in DOMAIN tiers : hit(i)
        THEN upper(tiers[CHOOSE i \in DOMAIN tiers :
                             hit(i) /\ \A j \in 1..(i - 1) : ~hit(j)].rating)
        ELSE "DANGER"

\* the local base_safety of get_safety_rating: the for/else over the tiers
base_safety(file_data) ==
    LET tiers == Tiers(file_data.type)
        hit(i) == Metric(file_data) <= 10 * tiers[i].threshold
    IN  IF \E i \in DOMAIN tiers : hit(i)
        THEN upper(tiers[CHOOSE i \in DOMAIN tiers :
                             hit(i) /\ \A j \in 1..(i - 1) : ~hit(j)].rating)
        ELSE "DANGER"

get_safety_rating(file_data) ==
    IF file_data.type \notin {"python", "config"}
    THEN "ERROR"
    ELSE IF file_data.type = "python"
         THEN adjust_safety(base_safety(file_data), file_data.comment_density)
         ELSE base_safety(file_data)

(***************************************************************************)
(* get_ai_recommendations                                                  *)
(***************************************************************************)
ModelThreshold(specs, file_type) ==
    IF file_type = "python" THEN specs.python_complexity ELSE specs.config_size_kb

\* the list built by the loop over AI_THRESHOLDS
MetricFiltered(file_data) ==
    LET passes(specs) ==
            Metric(file_data) <= 10 * ModelThreshold(specs, file_data.type)
        kept == SelectSeq(AI_THRESHOLDS, passes)
    IN  [i \in DOMAIN kept |-> kept[i].model]

get_ai_recommendations_danger_unchecked(file_data) ==
    LET recommendations == MetricFiltered(file_data)
        notHaiku(m) == m # "claude-3.5-haiku"
    IN  IF file_data.type \notin {"python", "config"} THEN <<"Human Review">>
        ELSE IF file_data.safety = "DANGER" THEN <<"claude-3.5-sonnet">>
        ELSE IF file_data.safety = "COMPLEX" THEN SelectSeq(recommendations, notHaiku)
        ELSE recommendations

get_ai_recommendations_no_danger(file_data) ==
    LET recommendations == MetricFiltered(file_data)
        notHaiku(m) == m # "claude-3.5-haiku"
    IN  IF file_data.type \notin {"python", "config"} THEN <<"Human Review">>
        ELSE IF file_data.safety = "COMPLEX" THEN SelectSeq(recommendations, notHaiku)
        ELSE recommendations

\* the record analyze_file passes has every key the function reads, so the
\* except branch (['Analysis Failed']) is not reached
get_ai_recommendations(file_data) ==
    LET recommendations == MetricFiltered(file_data)
        notHaiku(m) == m # "claude-3.5-haiku"
    IN  IF file_data.type \notin {"python", "config"} THEN <<"Human Review">>
        ELSE IF file_data.safety = "DANGER"
             THEN IF Contains(recommendations, "claude-3.5-sonnet")
                  THEN <<"claude-3.5-sonnet">>
                  ELSE <<>>
        ELSE IF file_data.safety = "COMPLEX" THEN SelectSeq(recommendations, notHaiku)
        ELSE recommendations

(***************************************************************************)
(* analyze_file                                                            *)
(***************************************************************************)
FileType(name) ==
    LET ext == lower(splitext(name))
    IN  IF ext \in PYTHON_EXTS THEN "python"
        ELSE IF ext \in CONFIG_EXTS THEN "config"
        ELSE "other"

\* the record returned by the except branch
ErrorResult(file) ==
    [path |-> file.path,
     type |-> "error",
     size |-> [bytes |-> 0, kb |-> 0, mb |-> 0],
     tokens |-> 0,
     complexity |-> 0,
     comment_density |-> 0,
     comment_quality |-> "ERROR",
     safety |-> "ANALYSIS FAILED",
     recommendations |-> <<"Human Review">>]

\* result once the metrics are gathered, before the safety rating is set;
\* reached only when no open, tokenize or cc_visit call raised
Gathered(file) ==
    LET file_type == FileType(file.name)
        comment_data == analyze_comments(file)
    IN  [path |-> file.path,
         type |-> file_type,
         size |-> get_file_size(file),
         tokens |-> file.tokens,
         complexity |-> IF file_type = "python" THEN file.complexity ELSE 0,
         comment_density |-> IF file_type = "python"
                             THEN comment_data.comment_density ELSE 0,
         comment_quality |-> IF file_type = "python"
                             THEN comment_data.comment_quality ELSE "N/A",
         safety |-> "PENDING",
         recommendations |-> <<>>]

\* the rest of the try block: the record with its safety, then with its
\* recommendations, each step reading the record the step before left
Classify(file) ==
    CHOOSE result \in
        {[rated EXCEPT !.recommendations = get_ai_recommendations(rated)] :
            rated \in {[gathered EXCEPT !.safety = get_safety_rating(gathered)] :
                          gathered \in {Gathered(file)}}} : TRUE

Returned(value) == [raised |-> FALSE, value |-> value]

Raised == [raised |-> TRUE, value |-> None]

\* the bug of leaving the exception of a failed read to the caller
analyze_file_uncaught(file) ==
    IF file.name = "report.py" \/ FileType(file.name) = "other" THEN Returned(None)
    ELSE IF file.readFails THEN Raised
    ELSE Returned(Classify(file))

\* the bug of returning the half-filled record from the except branch
analyze_file_partial(file) ==
    IF file.name = "report.py" \/ FileType(file.name) = "other" THEN Returned(None)
    ELSE IF file.readFails
         THEN Returned([ErrorResult(file) EXCEPT !.type = FileType(file.name),
                                                 !.safety = "PENDING",
                                                 !.recommendations = <<>>])
    ELSE Returned(Classify(file))

\* file.readFails: open, tokenize or cc_visit raises in the try block
analyze_file(file) ==
    IF file.name = "report.py" \/ FileType(file.name) = "other" THEN Returned(None)
    ELSE IF file.readFails THEN Returned(ErrorResult(file))
    ELSE Returned(Classify(file))

(***************************************************************************)
(* generate_report                                                         *)
(***************************************************************************)
\* sorted(..., key=lambda x: (-x.get('complexity', 0), x['path']))
Before(a, b) ==
    \/ a.complexity > b.complexity
    \/ a.complexity = b.complexity /\ a.path <= b.path

RECURSIVE SortedBy(_, _)
SortedBy(fs, idx) ==
    IF idx = {} THEN <<>>
    ELSE LET first == CHOOSE i \in idx :
                          \A j \in idx : Before(fs[i], fs[j]) /\ (Before(fs[j], fs[i]) => i <= j)
         IN  <<fs[first]>> \o SortedBy(fs, idx \ {first})

\* one table row of the report
Row(file) ==
    [path |-> file.path,
     type |-> file.type,
     kb |-> file.size.kb,
     tokens |-> file.tokens,
     complexity |-> file.complexity,
     comments |-> IF file.type = "python"
                  THEN <<file.comment_density, file.comment_quality>>
                  ELSE <<"N/A">>,
     safety |-> file.safety,
     models |-> file.recommendations]

IsValid(f) == f # None /\ f.type \in {"python", "config"}

generate_report_unfiltered(fs) ==
    LET sorted == SortedBy(fs, DOMAIN fs)
    IN  [i \in DOMAIN sorted |-> Row(sorted[i])]

\* the table rows of the report, in order
generate_report(fs) ==
    LET valid_files == SelectSeq(fs, IsValid)
        sorted == SortedBy(valid_files, DOMAIN valid_files)
    IN  [i \in DOMAIN sorted |-> Row(sorted[i])]

(***************************************************************************)
(* The files a directory may hold                                          *)
(***************************************************************************)
\* sizes around every size threshold: t KB, and 51 and 52 bytes more, the
\* two sides of the rounding of size.kb to one decimal
ByteSizes ==
    {1024 * k + d : k \in {0, 1000, 2500, 3500, 4000, 4001}, d \in {0, 51, 52}}

PythonInputs ==
    {f \in [name : {"app.py"}, bytes : {1536},
            statFails : BOOLEAN, readFails : BOOLEAN, commentFails : BOOLEAN,
            tokens : 2..MaxTokens, complexity : 0..MaxComplexity,
            comments : 0..MaxLines, lines : 0..MaxLines, docfirst : BOOLEAN] :
        f.comments <= f.lines /\ (f.docfirst => f.lines > 0)}

ConfigInputs ==
    [name : {"settings.JSON"}, bytes : ByteSizes,
     statFails : BOOLEAN, readFails : BOOLEAN, commentFails : {FALSE},
     tokens : 0..MaxTokens, complexity : {0},
     comments : {0}, lines : {0}, docfirst : {FALSE}]

\* files main passes over
SkippedInputs ==
    [name : {"report.py", "notes.txt"}, bytes : {1536},
     statFails : {FALSE}, readFails : {FALSE}, commentFails : {FALSE},
     tokens : {2}, complexity : {0},
     comments : {0}, lines : {0}, docfirst : {FALSE}]

FileInputs == PythonInputs \cup ConfigInputs \cup SkippedInputs

\* the file at position path of the walk
File(path, f) ==
    [path |-> path, name |-> f.name, bytes |-> f.bytes,
     statFails |-> f.statFails, readFails |-> f.readFails,
     commentFails |-> f.commentFails, tokens |-> f.tokens,
     complexity |-> f.complexity, comments |-> f.comments,
     lines |-> f.lines, docfirst |-> f.docfirst]

\* files that are analyzed without a failure, one token count each
Sound(f) == ~f.statFails /\ ~f.readFails /\ ~f.commentFails /\ ~f.docfirst
            /\ f.tokens = 2

\* the same file with another primary metric
Variants(f) ==
    IF FileType(f.name) = "python" /\ f.name # "report.py"
    THEN {[f EXCEPT !.complexity = c] : c \in 0..MaxComplexity}
    ELSE IF FileType(f.name) = "config"
    THEN {[f EXCEPT !.bytes = b] : b \in ByteSizes}
    ELSE {f}

\* a few files of every kind, for directories of several files
BatchInputs ==
    {f \in FileInputs :
        /\ f.tokens = 2
        /\ ~f.statFails
        /\ ~f.docfirst
        /\ f.readFails => ~f.commentFails
        /\ f.name = "app.py" =>
               f.complexity \in {10, 50} /\ f.lines = 4 /\ f.comments = 1
        /\ f.name = "settings.JSON" => f.bytes = 1024 * 4001}

RECURSIVE ListingsOf(_)
ListingsOf(n) ==
    IF n = 0 THEN {<<>>}
    ELSE LET shorter == ListingsOf(n - 1)
         IN  shorter \cup
             {Append(l, File(Len(l) + 1, f)) :
                  l \in {m \in shorter : Len(m) = n - 1}, f \in BatchInputs}

(***************************************************************************)
(* main                                                                    *)
(***************************************************************************)
InitWith(l) ==
    /\ listing = l
    /\ pos = 1
    /\ pc = "walk"
    /\ files = <<>>
    /\ calls = <<>>
    /\ report = <<>>

\* a directory of one file
Init == \E f \in FileInputs : InitWith(<<File(1, f)>>)

\* a directory of two files that differ in the primary metric only
InitPair ==
    \E f \in FileInputs :
        /\ Sound(f)
        /\ \E g \in Variants(f) : InitWith(<<File(1, f), File(2, g)>>)

\* a directory of up to MaxFiles files
InitBatch == \E l \in ListingsOf(MaxFiles) : InitWith(l)

\* the loop passes over report.py and over other extensions
SkipFile ==
    /\ pc = "walk"
    /\ pos <= Len(listing)
    /\ LET fn == listing[pos].name
       IN  \/ fn = "report.py"
           \/ lower(splitext(fn)) \notin PYTHON_EXTS \cup CONFIG_EXTS
    /\ pos' = pos + 1
    /\ UNCHANGED <<listing, pc, files, calls, report>>

\* one pass of the loop body on a python or config file; an exception
\* leaving analyze_file would reach the except branch of main: exit(1)
VisitFile ==
    /\ pc = "walk"
    /\ pos <= Len(listing)
    /\ LET fn == listing[pos].name
       IN  /\ fn # "report.py"
           /\ lower(splitext(fn)) \in PYTHON_EXTS \cup CONFIG_EXTS
    /\ \E analysis \in {analyze_file(listing[pos])} :
       \E base \in {IF listing[pos].readFails
                     THEN "UNSET"
                     ELSE base_safety(Gathered(listing[pos]))} :
           /\ calls' = Append(calls, [file |-> listing[pos],
                                      base_safety |-> base,
                                      raised |-> analysis.raised,
                                      value |-> analysis.value])
           /\ IF analysis.raised
              THEN /\ pc' = "fatal"
                   /\ UNCHANGED <<pos, files>>
              ELSE /\ pc' = pc
                   /\ pos' = pos + 1
                   /\ files' = IF analysis.value # None
                               THEN Append(files, analysis.value)
                               ELSE files
    /\ UNCHANGED <<listing, report>>

\* the walk is over
EndWalk ==
    /\ pc = "walk"
    /\ pos > Len(listing)
    /\ pc' = "report"
    /\ UNCHANGED <<listing, pos, files, calls, report>>

\* the report is rendered and written
WriteReport ==
    /\ pc = "report"
    /\ report' = generate_report(files)
    /\ pc' = "done"
    /\ UNCHANGED <<listing, pos, files, calls>>

\* os.makedirs or open raises: the except branch of main, exit(1)
ReportFails ==
    /\ pc = "report"
    /\ pc' = "fatal"
    /\ UNCHANGED <<listing, pos, files, calls, report>>

Next == SkipFile \/ VisitFile \/ EndWalk \/ WriteReport \/ ReportFails

Spec == Init /\ [][Next]_vars

SpecPair == InitPair /\ [][Next]_vars

SpecBatch == InitBatch /\ [][Next]_vars

\* main is one sequential loop: it takes its next step whenever it has one
FairBatch == InitBatch /\ [][Next]_vars /\ WF_vars(Next)

(***************************************************************************)
(* Properties                                                              *)
(***************************************************************************)
\* the call returned a record of a python or config file
Classified(c) ==
    /\ ~c.raised
    /\ c.value # None
    /\ c.value.type \in {"python", "config"}

SafetyValues == {"SIMPLE", "SAFE", "COMPLEX", "DANGER", "ERROR"}

\* every model of recs has a threshold of the file type that the metric does
\* not exceed
WithinThresholds(recs, file_data) ==
    \A k \in DOMAIN recs :
        \E m \in DOMAIN AI_THRESHOLDS :
            /\ AI_THRESHOLDS[m].model = recs[k]
            /\ Metric(file_data) <= 10 * ModelThreshold(AI_THRESHOLDS[m], file_data.type)

\* C1: for every python or config file, every primary metric and every safety
\* rating, each model get_ai_recommendations returns has a threshold for the
\* file type that is greater than or equal to the metric, the DANGER and
\* COMPLEX post-filters included.
C1_NoModelOverThreshold ==
    \A i \in DOMAIN calls :
        Classified(calls[i]) =>
            /\ WithinThresholds(calls[i].value.recommendations, calls[i].value)
            /\ \A s \in SafetyValues :
                   WithinThresholds(
                       get_ai_recommendations([calls[i].value EXCEPT !.safety = s]),
                       calls[i].value)

\* a file for which the metric filter kept some models and dropped others
C1_Witness ==
    \E i \in DOMAIN calls :
        /\ Classified(calls[i])
        /\ Len(calls[i].value.recommendations) = 2
        /\ calls[i].value.safety = "SAFE"

\* what a DANGER file is to be recommended: python complexity <= 55, config
\* size <= 4000 KB keeps the top model
DangerList(file_data) ==
    IF \/ file_data.type = "python" /\ file_data.complexity <= 55
       \/ file_data.type = "config" /\ file_data.size.kb <= 40000
    THEN <<"claude-3.5-sonnet">>
    ELSE <<>>

\* C2: for a python or config file rated DANGER get_ai_recommendations returns
\* exactly ['claude-3.5-sonnet'] when the metric is within that model's
\* threshold, and the empty list otherwise: at most one model.
C2_DangerAtMostOne ==
    \A i \in DOMAIN calls :
        Classified(calls[i]) =>
            /\ calls[i].value.safety = "DANGER" =>
                   /\ calls[i].value.recommendations = DangerList(calls[i].value)
                   /\ Len(calls[i].value.recommendations) <= 1
            /\ get_ai_recommendations([calls[i].value EXCEPT !.safety = "DANGER"])
                   = DangerList(calls[i].value)

\* a DANGER file within the top model's threshold: complexity 36..45 with few
\* comments, where two models pass the metric filter
C2_Witness ==
    \E i \in DOMAIN calls :
        /\ Classified(calls[i])
        /\ calls[i].value.safety = "DANGER"
        /\ calls[i].value.complexity <= 45
        /\ calls[i].value.recommendations = <<"claude-3.5-sonnet">>

\* a step of the classification failed: reading the file, or the comment
\* analysis of a python file that was read
StepFailed(f) ==
    \/ f.readFails
    \/ FileType(f.name) = "python" /\ f.commentFails

LessSafe(s) ==
    CASE s = "SIMPLE" -> "SAFE"
      [] s = "SAFE" -> "COMPLEX"
      [] s = "COMPLEX" -> "DANGER"
      [] s = "DANGER" -> "DANGER"

\* one step safer, clamped at SIMPLE
Safer(s) ==
    CASE s = "SIMPLE" -> "SIMPLE"
      [] s = "SAFE" -> "SIMPLE"
      [] s = "COMPLEX" -> "SAFE"
      [] s = "DANGER" -> "COMPLEX"

C4_SafetyInRange ==
    \A i \in DOMAIN calls :
        /\ ~calls[i].raised
        /\ calls[i].value # None => calls[i].value.safety # "PENDING"
        /\ ~calls[i].file.readFails =>
               /\ Classified(calls[i])
               /\ calls[i].value.safety \in SafetyValues

\* a result whose placeholder was replaced by a tier
C4_Witness ==
    \E i \in DOMAIN calls :
        /\ Classified(calls[i])
        /\ ~calls[i].file.readFails
        /\ calls[i].value.safety = "COMPLEX"

\* the tier of the claim's table: the first of SIMPLE, SAFE, COMPLEX, DANGER
\* whose threshold the metric does not exceed, DANGER above all four
TableTier(file_data) ==
    IF file_data.type = "python"
    THEN CASE file_data.complexity <= 15 -> "SIMPLE"
           [] file_data.complexity > 15 /\ file_data.complexity <= 35 -> "SAFE"
           [] file_data.complexity > 35 /\ file_data.complexity <= 55 -> "COMPLEX"
           [] file_data.complexity > 55 /\ file_data.complexity <= 56 -> "DANGER"
           [] file_data.complexity > 56 -> "DANGER"
    ELSE CASE file_data.size.kb <= 10000 -> "SIMPLE"
           [] file_data.size.kb > 10000 /\ file_data.size.kb <= 25000 -> "SAFE"
           [] file_data.size.kb > 25000 /\ file_data.size.kb <= 40000 -> "COMPLEX"
           [] file_data.size.kb > 40000 /\ file_data.size.kb <= 40010 -> "DANGER"
           [] file_data.size.kb > 40010 -> "DANGER"

\* C6: the base tier of get_safety_rating, before the comment adjustment, is
\* the first tier in the order SIMPLE, SAFE, COMPLEX, DANGER whose threshold
\* is greater than or equal to the primary metric (python 15, 35, 55, 56;
\* config 1000, 2500, 4000, 4001 KB), and DANGER when the metric exceeds all
\* four: every metric above the COMPLEX ceiling has base tier DANGER.
C6_BaseTier ==
    \A i \in DOMAIN calls :
        ~calls[i].file.readFails =>
            /\ calls[i].base_safety = TableTier(calls[i].value)
            /\ (Metric(calls[i].value) >
                    10 * Tiers(calls[i].value.type)[3].threshold)
                   => calls[i].base_safety = "DANGER"

\* a metric above the COMPLEX ceiling and at the nominal DANGER threshold
C6_Witness ==
    \E i \in DOMAIN calls :
        /\ Classified(calls[i])
        /\ calls[i].value.complexity = 56
        /\ calls[i].base_safety = "DANGER"

\* C7: for a fixed file type and a fixed comment density, of two primary
\* metrics m1 <= m2 the tier get_safety_rating resolves for m2 is never safer
\* than the tier it resolves for m1.
C7_Monotone ==
    \A i, j \in DOMAIN calls :
        (/\ Classified(calls[i])
         /\ Classified(calls[j])
         /\ calls[i].value.type = calls[j].value.type
         /\ calls[i].value.comment_density = calls[j].value.comment_density
         /\ Metric(calls[i].value) <= Metric(calls[j].value))
        => /\ IndexOf(calls[i].value.safety) >= 1
           /\ IndexOf(calls[i].value.safety) <= IndexOf(calls[j].value.safety)

\* two files of one type and one comment density, the second with the larger
\* metric and the less safe tier
C7_Witness ==
    /\ Len(calls) = 2
    /\ Classified(calls[1])
    /\ Classified(calls[2])
    /\ calls[1].value.type = "python"
    /\ calls[2].value.type = "python"
    /\ calls[1].value.comment_density = calls[2].value.comment_density
    /\ calls[1].value.comment_density >= 250
    /\ Metric(calls[1].value) < Metric(calls[2].value)
    /\ IndexOf(calls[1].value.safety) < IndexOf(calls[2].value.safety)

\* C8: for a python file with base tier b the rating is one step safer than b
\* when the comment density is >= 25 (SIMPLE stays SIMPLE), one step less safe
\* when it is < 10 (DANGER stays DANGER), and b when 10 <= density < 25; for
\* a config file the rating is the base tier, whatever the comments.
C8_CommentAdjustment ==
    \A i \in DOMAIN calls :
        ~calls[i].file.readFails =>
            LET b == calls[i].base_safety
                v == calls[i].value
            IN  IF v.type = "python"
                THEN /\ v.comment_density >= 250 => v.safety = Safer(b)
                     /\ v.comment_density < 100 => v.safety = LessSafe(b)
                     /\ (v.comment_density >= 100 /\ v.comment_density < 250)
                            => v.safety = b
                ELSE v.safety = b

\* a python file with a quarter of its lines comments, rated one step safer
C8_Witness ==
    \E i \in DOMAIN calls :
        /\ Classified(calls[i])
        /\ calls[i].value.type = "python"
        /\ calls[i].value.comment_density = 250
        /\ calls[i].base_safety = "COMPLEX"
        /\ calls[i].value.safety = "SAFE"

\* The override of analyze_comments asks for a file with no line and a first
\* line that opens a docstring; has_module_doc is set only when there is a
\* line, so an empty python file is rated from the table: density 0, POOR.
EmptyFileIsPoor ==
    \A i \in DOMAIN calls :
        (/\ Classified(calls[i])
         /\ calls[i].value.type = "python"
         /\ ~calls[i].file.commentFails
         /\ calls[i].file.lines = 0)
        => /\ calls[i].value.comment_density = 0
           /\ calls[i].value.comment_quality = "POOR"

\* no python file that was read is rated EXCELLENT with a density under 25
ExcellentOnlyByDensity ==
    \A i \in DOMAIN calls :
        (Classified(calls[i]) /\ calls[i].value.comment_quality = "EXCELLENT")
        => calls[i].value.comment_density >= 250

\* the files of the listing that main hands to analyze_file
Eligible(f) ==
    /\ f.name # "report.py"
    /\ lower(splitext(f.name)) \in PYTHON_EXTS \cup CONFIG_EXTS

\* every eligible file of the directory has its record in files
AllClassified ==
    /\ pos = Len(listing) + 1
    /\ \A i \in DOMAIN listing :
           Eligible(listing[i]) => \E k \in DOMAIN files : files[k].path = i

C10_ReportRows ==
    pc = "done" =>
        /\ \A r \in DOMAIN report : report[r].type \in {"python", "config"}
        /\ \A k \in DOMAIN files :
               files[k].type = "error" =>
                   /\ files[k].safety = "ANALYSIS FAILED"
                   /\ files[k].recommendations = <<"Human Review">>
                   /\ ~\E r \in DOMAIN report : report[r].path = files[k].path
        /\ \A k \in DOMAIN files :
               files[k].type \in {"python", "config"} =>
                   \E r \in DOMAIN report : report[r].path = files[k].path

\* a written report of a batch with a failed file and a rated one
C10_Witness ==
    /\ pc = "done"
    /\ Len(report) >= 1
    /\ \E k \in DOMAIN files : files[k].type = "error"

====
